---- MODULE Spec2Model ----
(***************************************************************************)
(* Model of air_quality_dashboard.py: the sensor loader with its synthetic *)
(* fallback, the research loader, and the two dashboard callbacks.         *)
(*                                                                         *)
(* Text cells are sequences of one-character strings, so that strip and    *)
(* the numeric / timestamp parsers are computed, not assumed.  A number is *)
(* a record [nan, n, d]: NaN, or the non-negative rational n/d in lowest   *)
(* terms (float rounding error is not modelled).  A timestamp is a number  *)
(* of ticks, TicksPerDay ticks to the day; NaT is -1.                      *)
(***************************************************************************)
EXTENDS Integers, Sequences, FiniteSets, TLC

\* ------------------------------------------------------------- bounds
MaxRows == 2
MaxCorrRows == 2
MaxStartupRows == 1
TicksPerDay == 2
NumSeeds == 2

\* ------------------------------------------------------------- text
Q == "'"

\* the characters that occur in the modelled files, in ASCII order
CharOrder ==
  << " ", "'", "0", "1", "2", "3", "4", "5", "6", "7", "8", "9",
     "A", "B", "C", "E", "L", "N", "O", "P", "R", "S", "T", "_",
     "a", "c", "h", "i", "m", "n", "o", "s", "t", "u", "x" >>

ord(c) == CHOOSE i \in 1..Len(CharOrder) : CharOrder[i] = c

Digits == <<"0", "1", "2", "3", "4", "5", "6", "7", "8", "9">>

IsDigit(c) == \E i \in 1..10 : Digits[i] = c

DigitValue(c) == (CHOOSE i \in 1..10 : Digits[i] = c) - 1

\* an empty CSV cell, which read_csv turns into NaN
NaNCell == <<"NaN">>

IsNaNCell(s) == s = NaNCell

RECURSIVE lstrip(_, _)
lstrip(s, ch) ==
  IF s # <<>> /\ Head(s) = ch THEN lstrip(Tail(s), ch) ELSE s

RECURSIVE rstrip(_, _)
rstrip(s, ch) ==
  IF s # <<>> /\ s[Len(s)] = ch THEN rstrip(SubSeq(s, 1, Len(s) - 1), ch) ELSE s

\* Series.str.strip("'") on one cell: NaN stays NaN
str_strip(s) == IF IsNaNCell(s) THEN s ELSE rstrip(lstrip(s, Q), Q)

\* lexicographic order of two strings (Python's str <)
RECURSIVE StrLess(_, _)
StrLess(a, b) ==
  IF b = <<>> THEN FALSE
  ELSE IF a = <<>> THEN TRUE
  ELSE IF Head(a) = Head(b) THEN StrLess(Tail(a), Tail(b))
  ELSE ord(Head(a)) < ord(Head(b))

\* ------------------------------------------------------------- numbers
NaN == [nan |-> TRUE, n |-> 0, d |-> 1]

RECURSIVE GCD(_, _)
GCD(a, b) == IF b = 0 THEN a ELSE GCD(b, a % b)

Rat(n, d) ==
  LET g == GCD(n, d) IN [nan |-> FALSE, n |-> n \div g, d |-> d \div g]

IntNum(k) == [nan |-> FALSE, n |-> k, d |-> 1]

NumAdd(a, b) == Rat(a.n * b.d + b.n * a.d, a.d * b.d)

NumLess(a, b) == a.n * b.d < b.n * a.d

AllDigits(s) == s # <<>> /\ \A i \in 1..Len(s) : IsDigit(s[i])

RECURSIVE DigitsValue(_)
DigitsValue(s) ==
  IF s = <<>> THEN 0
  ELSE 10 * DigitsValue(SubSeq(s, 1, Len(s) - 1)) + DigitValue(s[Len(s)])

\* read_csv type inference: a column is numeric when it has rows and every
\* cell is a number or empty
IsNumericCell(s) == IsNaNCell(s) \/ AllDigits(s)

IsNumericColumn(cells) ==
  cells # <<>> /\ \A i \in 1..Len(cells) : IsNumericCell(cells[i])

\* pd.to_numeric(..., errors='coerce') on one cell
to_numeric(s) ==
  IF ~IsNaNCell(s) /\ AllDigits(s) THEN IntNum(DigitsValue(s)) ELSE NaN

\* Series.mean / max / min, which skip NaN
RECURSIVE NumSumRange(_, _, _)
\* the sum of the values vals[lo..hi] that are not NaN
NumSumRange(vals, lo, hi) ==
  IF lo > hi THEN IntNum(0)
  ELSE IF lo = hi THEN (IF vals[lo].nan THEN IntNum(0) ELSE vals[lo])
  ELSE LET mid == (lo + hi) \div 2
       IN NumAdd(NumSumRange(vals, lo, mid), NumSumRange(vals, mid + 1, hi))

NumSum(vals) == NumSumRange(vals, 1, Len(vals))

NotNaCount(vals) == Cardinality({i \in 1..Len(vals) : ~vals[i].nan})

mean(vals) ==
  LET count == NotNaCount(vals) IN
  IF count = 0 THEN NaN
  ELSE LET s == NumSum(vals) IN Rat(s.n, s.d * count)

\* the larger of two values, NaN counting as absent
Larger(a, b) == IF a.nan THEN b ELSE IF b.nan THEN a ELSE IF NumLess(a, b) THEN b ELSE a

Smaller(a, b) == IF a.nan THEN b ELSE IF b.nan THEN a ELSE IF NumLess(b, a) THEN b ELSE a

RECURSIVE NumMaxRange(_, _, _)
NumMaxRange(vals, lo, hi) ==
  IF lo > hi THEN NaN
  ELSE IF lo = hi THEN vals[lo]
  ELSE LET mid == (lo + hi) \div 2
           l == NumMaxRange(vals, lo, mid)
           r == NumMaxRange(vals, mid + 1, hi)
       IN Larger(l, r)

RECURSIVE NumMinRange(_, _, _)
NumMinRange(vals, lo, hi) ==
  IF lo > hi THEN NaN
  ELSE IF lo = hi THEN vals[lo]
  ELSE LET mid == (lo + hi) \div 2
           l == NumMinRange(vals, lo, mid)
           r == NumMinRange(vals, mid + 1, hi)
       IN Smaller(l, r)

NumMax(vals) == NumMaxRange(vals, 1, Len(vals))

NumMin(vals) == NumMinRange(vals, 1, Len(vals))

\* f"{x:.2f}": "nan", or the value in hundredths rounded half to even
Format2f(v) ==
  LET x == v IN
  IF x.nan THEN [nan |-> TRUE, hundredths |-> 0]
  ELSE LET q == (100 * x.n) \div x.d
           r == (100 * x.n) % x.d
           up == 2 * r > x.d \/ (2 * r = x.d /\ q % 2 = 1)
       IN [nan |-> FALSE, hundredths |-> IF up THEN q + 1 ELSE q]

\* ------------------------------------------------------------- sequences
RECURSIVE SelectRange(_, _, _, _)
\* the rows lo..hi of a sequence whose index satisfies a mask, in order
SelectRange(rows, mask, lo, hi) ==
  IF lo > hi THEN <<>>
  ELSE IF lo = hi THEN (IF mask[lo] THEN <<rows[lo]>> ELSE <<>>)
  ELSE LET mid == (lo + hi) \div 2
       IN SelectRange(rows, mask, lo, mid) \o SelectRange(rows, mask, mid + 1, hi)

BoolIndex(rows, mask) == SelectRange(rows, mask, 1, Len(rows))

Range(s) == {s[i] : i \in 1..Len(s)}

SeqsUpTo(S, n) == UNION {[1..k -> S] : k \in 0..n}

\* ------------------------------------------------------------- timestamps
NaT == -1

IndexOf(s, ch) ==
  IF \E i \in 1..Len(s) : s[i] = ch
  THEN CHOOSE i \in 1..Len(s) : s[i] = ch /\ \A j \in 1..(i - 1) : s[j] # ch
  ELSE 0

DayPart(s) == SubSeq(s, 1, IndexOf(s, "T") - 1)

TickPart(s) == SubSeq(s, IndexOf(s, "T") + 1, Len(s))

\* a timestamp is written <day>T<tick of the day>
TimestampParses(s) ==
  /\ IndexOf(s, "T") > 0
  /\ AllDigits(DayPart(s))
  /\ AllDigits(TickPart(s))
  /\ DigitsValue(TickPart(s)) < TicksPerDay

ParseTimestamp(s) == DigitsValue(DayPart(s)) * TicksPerDay + DigitsValue(TickPart(s))

DateOf(t) == t \div TicksPerDay

\* ------------------------------------------------------------- data frames
\* A DataFrame object: its identity, its columns, its rows, and the values of
\* the 'date' column (empty until update_figures adds that column).
DataFrame(id, columns, rows) ==
  [id |-> id, columns |-> columns, rows |-> rows, date |-> <<>>]

HasColumn(df, col) == \E i \in 1..Len(df.columns) : df.columns[i] = col

Ok(value) == [raised |-> FALSE, exc |-> "", value |-> value]

Raise(exc) == [raised |-> TRUE, exc |-> exc, value |-> <<>>]

\* ------------------------------------------------------------- create_sample_data
SampleLocations ==
  << <<"L", "o", "c", "a", "t", "i", "o", "n", " ", "A">>,
     <<"L", "o", "c", "a", "t", "i", "o", "n", " ", "B">>,
     <<"L", "o", "c", "a", "t", "i", "o", "n", " ", "C">> >>

SamplePeriods == 30

AqiLow == 0

AqiHigh == 200

SensorLow == 1

SensorHigh == 5

RECURSIVE PowMod(_, _, _)
PowMod(a, n, m) ==
  IF n = 0 THEN 1
  ELSE LET h == PowMod(a, n \div 2, m)
       IN IF n % 2 = 0 THEN (h * h) % m ELSE (((h * h) % m) * a) % m

\* 75^n mod 8191 for every draw a call of create_sample_data can make
RngPowers ==
  [n \in 0..(2 * Len(SampleLocations) * (SamplePeriods + 1)) |-> PowMod(75, n, 8191)]

\* numpy's global generator is deterministic given its seed, which the process
\* start draws from the system: the state after n draws from the seed, for the
\* generator s -> (75 * s + 74) mod 8191, that is 75^n * (seed + 1) - 1
rng_state(seed, n) == (RngPowers[n] * (seed + 1) + 8190) % 8191

\* np.random.randint(low, high) on generator state s
randint(s, low, high) == low + (s % (high - low))

\* date_range stepping by one tick instead of one day
date_range_ticks(now, periods) ==
  [i \in 1..periods |-> now - (periods - i)]

\* pd.date_range(end=now, periods=periods, freq='D')
date_range(now, periods) ==
  [i \in 1..periods |-> now - (periods - i) * TicksPerDay]

\* f"SENSOR_{k}"
SensorLabel(k) == <<"S", "E", "N", "S", "O", "R", "_", Digits[k + 1]>>

\* lines 67-72: the k-th pass of the loop body appends one row, for
\* locations[li] and dates[di], after two draws
sample_rows(locations, dates, seed) ==
  [k \in 1..(Len(locations) * Len(dates)) |->
     LET li == ((k - 1) \div Len(dates)) + 1
         di == ((k - 1) % Len(dates)) + 1
     IN [timestamp |-> dates[di],
         location |-> locations[li],
         air_quality_index |->
           IntNum(randint(rng_state(seed, 2 * k - 1), AqiLow, AqiHigh)),
         sensor_id |->
           SensorLabel(randint(rng_state(seed, 2 * k), SensorLow, SensorHigh))]]

create_sample_data(now, seed) ==
  DataFrame(0, <<"timestamp", "location", "air_quality_index", "sensor_id">>,
            sample_rows(SampleLocations, date_range(now, SamplePeriods), seed))

\* ------------------------------------------------------------- load_and_process_sensor_data
string_columns == <<"sensor_id", "sensor_type", "location", "value_type">>

\* the columns whose type read_csv infers (dtype=str is forced on the others)
InferredColumns == {"sensor_type", "value_type", "air_quality_index", "timestamp"}

AllowedValueTypes == { <<"P", "0">>, <<"P", "1">>, <<"P", "2">> }

Column(rows, col) == [i \in 1..Len(rows) |-> rows[i][col]]

\* pd.read_csv(file_path, dtype=...)
read_csv(file) ==
  IF file.exists THEN Ok(file) ELSE Raise("FileNotFoundError")

\* df[col].str : needs a column of strings
StrAccessorRaises(df, col) ==
  col \in InferredColumns /\ IsNumericColumn(Column(df.rows, col))

RECURSIVE strip_columns(_, _)
\* lines 28-30: for col in string_columns: df[col] = df[col].str.strip("'")
strip_columns(df, k) ==
  IF k > Len(string_columns) THEN Ok(df)
  ELSE LET col == string_columns[k] IN
       IF ~HasColumn(df, col) THEN Raise("KeyError")
       ELSE IF StrAccessorRaises(df, col) THEN Raise("AttributeError")
       ELSE strip_columns(
              [df EXCEPT !.rows =
                 [i \in 1..Len(df.rows) |->
                    [df.rows[i] EXCEPT ![col] = str_strip(df.rows[i][col])]]],
              k + 1)

\* pd.to_datetime on one cell: an empty cell is NaT
DatetimeCellRaises(s) == ~IsNaNCell(s) /\ ~TimestampParses(s)

to_datetime_cell(s) == IF IsNaNCell(s) THEN NaT ELSE ParseTimestamp(s)

\* to_datetime with errors='coerce': what is no date becomes NaT
to_datetime_coerce(df) ==
  IF ~HasColumn(df, "timestamp") THEN Raise("KeyError")
  ELSE Ok([df EXCEPT !.rows =
             [i \in 1..Len(df.rows) |->
                [df.rows[i] EXCEPT !.timestamp =
                   IF DatetimeCellRaises(@) THEN NaT ELSE to_datetime_cell(@)]]])

\* line 33: df['timestamp'] = pd.to_datetime(df['timestamp'])
to_datetime(df) ==
  IF ~HasColumn(df, "timestamp") THEN Raise("KeyError")
  ELSE IF \E i \in 1..Len(df.rows) : DatetimeCellRaises(df.rows[i].timestamp)
  THEN Raise("ValueError")
  ELSE Ok([df EXCEPT !.rows =
             [i \in 1..Len(df.rows) |->
                [df.rows[i] EXCEPT !.timestamp = to_datetime_cell(@)]]])

\* the conversion followed by dropna: rows without a number are dropped
convert_air_quality_index_dropna(df) ==
  IF ~HasColumn(df, "air_quality_index") THEN Raise("KeyError")
  ELSE IF StrAccessorRaises(df, "air_quality_index") THEN Raise("AttributeError")
  ELSE Ok([df EXCEPT !.rows =
             LET converted ==
                   [i \in 1..Len(df.rows) |->
                      [df.rows[i] EXCEPT
                         !.air_quality_index = to_numeric(str_strip(@))]]
             IN BoolIndex(converted,
                          [i \in 1..Len(converted) |->
                             ~converted[i].air_quality_index.nan])])

\* line 36: pd.to_numeric(df['air_quality_index'].str.strip("'"), errors='coerce')
convert_air_quality_index(df) ==
  IF ~HasColumn(df, "air_quality_index") THEN Raise("KeyError")
  ELSE IF StrAccessorRaises(df, "air_quality_index") THEN Raise("AttributeError")
  ELSE Ok([df EXCEPT !.rows =
             [i \in 1..Len(df.rows) |->
                [df.rows[i] EXCEPT !.air_quality_index = to_numeric(str_strip(@))]]])

\* no filter on value_type
value_type_filter_all(rows) == rows

\* line 39: df = df[df['value_type'].isin(['P0', 'P1', 'P2'])]
value_type_filter(rows) ==
  BoolIndex(rows, [i \in 1..Len(rows) |-> rows[i].value_type \in AllowedValueTypes])

\* the grouping key of a row, and whether groupby keeps it (dropna=True)
GroupKey(r) ==
  [timestamp |-> r.timestamp, location |-> r.location, sensor_id |-> r.sensor_id]

KeyPresent(k) ==
  k.timestamp # NaT /\ ~IsNaNCell(k.location) /\ ~IsNaNCell(k.sensor_id)

KeyLess(a, b) ==
  \/ a.timestamp < b.timestamp
  \/ a.timestamp = b.timestamp /\ StrLess(a.location, b.location)
  \/ a.timestamp = b.timestamp /\ a.location = b.location
       /\ StrLess(a.sensor_id, b.sensor_id)

RECURSIVE SortKeys(_)
SortKeys(S) ==
  IF S = {} THEN <<>>
  ELSE LET m == CHOOSE k \in S : \A o \in S \ {k} : KeyLess(k, o)
       IN <<m>> \o SortKeys(S \ {m})

GroupValues(rows, k) ==
  Column(BoolIndex(rows, [i \in 1..Len(rows) |-> GroupKey(rows[i]) = k]),
         "air_quality_index")

\* line 42: groupby([...])['air_quality_index'].mean().reset_index()
groupby_mean(rows) ==
  LET keys == SortKeys({k \in {GroupKey(rows[i]) : i \in 1..Len(rows)} : KeyPresent(k)})
  IN [j \in 1..Len(keys) |->
        [timestamp |-> keys[j].timestamp,
         location |-> keys[j].location,
         sensor_id |-> keys[j].sensor_id,
         air_quality_index |-> mean(GroupValues(rows, keys[j]))]]

\* the try block, lines 18-49
load_try(file) ==
  LET r0 == read_csv(file) IN
  IF r0.raised THEN r0 ELSE
  LET r1 == strip_columns(r0.value, 1) IN
  IF r1.raised THEN r1 ELSE
  LET r2 == to_datetime(r1.value) IN
  IF r2.raised THEN r2 ELSE
  LET r3 == convert_air_quality_index(r2.value) IN
  IF r3.raised THEN r3 ELSE
  IF ~HasColumn(r3.value, "value_type") THEN Raise("KeyError") ELSE
  Ok(DataFrame(0, <<"timestamp", "location", "sensor_id", "air_quality_index">>,
               groupby_mean(value_type_filter(r3.value.rows))))

\* the except clause, lines 51-53
load_except(e, now, seed) == Ok(create_sample_data(now, seed))

\* the try statement, given how its body ended
load_finish(r, now, seed) == IF r.raised THEN load_except(r, now, seed) ELSE r

\* lines 12-53; now and seed are what datetime.now() and numpy's generator
\* give the fallback
load_and_process_sensor_data(file, now, seed) ==
  load_finish(load_try(file), now, seed)

\* ------------------------------------------------------------- load_research_findings
\* findings_df.groupby('category')['detail'].count().reset_index()
RECURSIVE SortStrings(_)
SortStrings(S) ==
  IF S = {} THEN <<>>
  ELSE LET m == CHOOSE k \in S : \A o \in S \ {k} : StrLess(k, o)
       IN <<m>> \o SortStrings(S \ {m})

count_by_category(rows) ==
  LET cats == SortStrings({rows[i].category : i \in 1..Len(rows)} \ {NaNCell})
  IN [j \in 1..Len(cats) |->
        [category |-> cats[j],
         detail |-> Cardinality({i \in 1..Len(rows) :
                       rows[i].category = cats[j] /\ ~IsNaNCell(rows[i].detail)})]]

\* the conversion followed by dropna: rows without a number are dropped
coerce_value_column_dropna(df) ==
  IF ~HasColumn(df, "value") THEN Raise("KeyError")
  ELSE Ok([df EXCEPT !.rows =
             LET converted ==
                   [i \in 1..Len(df.rows) |->
                      [df.rows[i] EXCEPT !.value = to_numeric(@)]]
             IN BoolIndex(converted,
                          [i \in 1..Len(converted) |-> ~converted[i].value.nan])])

\* correlations_df['value'] = pd.to_numeric(correlations_df['value'], errors='coerce')
coerce_value_column(df) ==
  IF ~HasColumn(df, "value") THEN Raise("KeyError")
  ELSE Ok([df EXCEPT !.rows =
             [i \in 1..Len(df.rows) |-> [df.rows[i] EXCEPT !.value = to_numeric(@)]]])

\* lines 83-94; no exception is caught here
load_research_findings(findings_file, correlations_file) ==
  LET f == read_csv(findings_file) IN
  IF f.raised THEN f ELSE
  LET c == read_csv(correlations_file) IN
  IF c.raised THEN c ELSE
  IF ~HasColumn(f.value, "category") \/ ~HasColumn(f.value, "detail")
  THEN Raise("KeyError") ELSE
  LET v == coerce_value_column(c.value) IN
  IF v.raised THEN v ELSE
  Ok([findings_df |-> f.value,
      correlations_df |-> v.value,
      findings_by_category |-> count_by_category(f.value.rows)])

\* ------------------------------------------------------------- update_figures
None == [none |-> TRUE, val |-> <<>>]

Some(v) == [none |-> FALSE, val |-> v]

\* a date handed over by the date picker, as the tick pandas parses it to
NoDate == [none |-> TRUE, val |-> 0]

\* Python truth value of a list argument: None and [] are false
Truthy(arg) == ~arg.none /\ arg.val # <<>>

\* Python truth value of a date argument: None is false, a date string true
TruthyDate(arg) == ~arg.none

\* no copy: the same object under another name
copy_alias(df) == df

\* DataFrame.copy(): a new object with the same contents
copy(df) == [df EXCEPT !.id = df.id + 1]

\* df[mask]: a new object holding the selected rows
getitem_mask(df, mask) ==
  [df EXCEPT !.id = df.id + 1, !.rows = BoolIndex(df.rows, mask)]

\* lines 231-232
location_filter(df, selected_locations) ==
  IF Truthy(selected_locations)
  THEN getitem_mask(df, [i \in 1..Len(df.rows) |->
                           df.rows[i].location \in Range(selected_locations.val)])
  ELSE df

\* the date filter with the end of the range left out
date_filter_exclusive(df, start_date, end_date) ==
  IF TruthyDate(start_date) /\ TruthyDate(end_date)
  THEN getitem_mask(df, [i \in 1..Len(df.rows) |->
                           /\ df.rows[i].timestamp >= start_date.val
                           /\ df.rows[i].timestamp < end_date.val])
  ELSE df

\* lines 234-238
date_filter(df, start_date, end_date) ==
  IF TruthyDate(start_date) /\ TruthyDate(end_date)
  THEN getitem_mask(df, [i \in 1..Len(df.rows) |->
                           /\ df.rows[i].timestamp >= start_date.val
                           /\ df.rows[i].timestamp <= end_date.val])
  ELSE df

\* line 250: filtered_df['date'] = filtered_df['timestamp'].dt.date, which
\* changes the object filtered_df names
set_date_column(df) ==
  [df EXCEPT !.columns = IF HasColumn(df, "date") THEN @ ELSE Append(@, "date"),
             !.date = [i \in 1..Len(df.rows) |-> DateOf(df.rows[i].timestamp)]]

\* a plotly express figure: its kind and the table it draws
Figure(kind, data, x, y) == [kind |-> kind, data |-> data, x |-> x, y |-> y]

EmptyFigure(kind) == Figure(kind, <<>>, "", "")

\* a set of integers in ascending order
SortInts(S) ==
  IF S = {} THEN <<>>
  ELSE LET lo == CHOOSE k \in S : \A o \in S : k <= o
           hi == CHOOSE k \in S : \A o \in S : k >= o
           all == [i \in 1..(hi - lo + 1) |-> lo + i - 1]
       IN BoolIndex(all, [i \in 1..(hi - lo + 1) |-> all[i] \in S])

RECURSIVE Flatten(_)
Flatten(ss) == IF ss = <<>> THEN <<>> ELSE Head(ss) \o Flatten(Tail(ss))

\* line 251: groupby(['location', 'date'])['air_quality_index'].mean().reset_index()
daily_average(df) ==
  LET idx == 1..Len(df.rows)
      locs == SortStrings({df.rows[i].location : i \in idx})
      Group(loc) ==
        LET at == {i \in idx : df.rows[i].location = loc}
            ds == SortInts({df.date[i] : i \in at})
            Vals(d) ==
              LET sel == SortInts({i \in at : df.date[i] = d})
              IN [k \in 1..Len(sel) |-> df.rows[sel[k]].air_quality_index]
        IN [k \in 1..Len(ds) |->
              [location |-> loc, date |-> ds[k],
               air_quality_index |-> mean(Vals(ds[k]))]]
  IN Flatten([l \in 1..Len(locs) |-> Group(locs[l])])

\* the statistics taken over every filtered row, whatever its location
location_statistics_all(df, loc) ==
  LET aqi == Column(df.rows, "air_quality_index")
  IN [location |-> loc,
      mean |-> Format2f(mean(aqi)),
      max |-> Format2f(NumMax(aqi)),
      min |-> Format2f(NumMin(aqi)),
      count |-> Len(df.rows)]

\* lines 263-270: the statistics of one location
location_statistics(df, loc) ==
  LET loc_data == BoolIndex(df.rows, [i \in 1..Len(df.rows) |-> df.rows[i].location = loc])
      aqi == Column(loc_data, "air_quality_index")
  IN [location |-> loc,
      mean |-> Format2f(mean(aqi)),
      max |-> Format2f(NumMax(aqi)),
      min |-> Format2f(NumMin(aqi)),
      count |-> Len(loc_data)]

\* lines 261-270: iterating None raises TypeError
statistics(df, selected_locations) ==
  IF selected_locations.none THEN Raise("TypeError")
  ELSE Ok([k \in 1..Len(selected_locations.val) |->
             location_statistics(df, selected_locations.val[k])])

\* lines 228-272.  The result names the base dataset as the call leaves it,
\* the locals, and either the returned triple or the exception raised.
update_figures(base, selected_locations, start_date, end_date) ==
  LET f0 == copy(base)
      f1 == location_filter(f0, selected_locations)
      f2 == date_filter(f1, start_date, end_date)
      air_quality_fig == Figure("line", f2.rows, "timestamp", "air_quality_index")
      filtered_df == set_date_column(f2)
      daily_avg == daily_average(filtered_df)
      trends_fig == Figure("bar", daily_avg, "date", "air_quality_index")
      stats == statistics(filtered_df, selected_locations)
  IN [sensor_data |-> IF base.id = f2.id THEN filtered_df ELSE base,
      filtered_df |-> filtered_df,
      daily_avg |-> daily_avg,
      raised |-> stats.raised,
      exc |-> stats.exc,
      air_quality_fig |-> IF stats.raised THEN EmptyFigure("none") ELSE air_quality_fig,
      trends_fig |-> IF stats.raised THEN EmptyFigure("none") ELSE trends_fig,
      stats |-> stats.value]

\* ------------------------------------------------------------- update_research_findings
\* html.Div(children)
Div(children) == [tag |-> "Div", children |-> children]

\* lines 402-408
create_finding_card(title, points) == [title |-> title, points |-> points]

FindingCards ==
  << create_finding_card("Pollution Sources",
       <<"Traffic-related emissions",
         "Indoor air pollution (vapors, dusts, smoke)",
         "Waste management practices">>),
     create_finding_card("Vulnerable Groups",
       <<"Children with developing lungs",
         "Preterm/low birth weight infants",
         "Residents with limited healthcare access">>),
     create_finding_card("Study Limitations",
       <<"Cross-sectional design",
         "Limited longitudinal data",
         "Indirect waste pollution inference">>) >>

NotNaRows(rows) == BoolIndex(rows, [i \in 1..Len(rows) |-> ~rows[i].value.nan])

\* px.bar / px.scatter of a table: a column it is asked to draw must exist
px(kind, df, rows, x, y) ==
  IF ~HasColumn(df, x) \/ ~HasColumn(df, y) THEN Raise("ValueError")
  ELSE Ok(Figure(kind, rows, x, y))

\* the try block of create_health_correlations_page, lines 330-396; it reads
\* the module-level correlations_df, which only the __main__ block assigns
health_correlations_try(global_correlations) ==
  IF ~global_correlations.defined THEN Raise("NameError") ELSE
  LET df == global_correlations.df IN
  IF ~HasColumn(df, "parameter") THEN Raise("KeyError") ELSE
  LET pm25_data ==
        BoolIndex(df.rows, [i \in 1..Len(df.rows) |->
                              df.rows[i].parameter = "PM2.5 Levels"])
      health_data ==
        BoolIndex(df.rows, [i \in 1..Len(df.rows) |->
                              /\ df.rows[i].parameter = "Health Implications"
                              /\ ~df.rows[i].value.nan])
      pm25_fig == px("bar", df, pm25_data, "detail", "value")
      health_fig == px("scatter", df, health_data, "detail", "value")
  IN IF pm25_fig.raised THEN pm25_fig
     ELSE IF health_fig.raised THEN health_fig
     ELSE Ok(Div(<<pm25_fig.value, health_fig.value, FindingCards>>))

\* lines 326-400
create_health_correlations_page(global_correlations) ==
  LET r == health_correlations_try(global_correlations) IN
  IF r.raised THEN Div("Error loading health correlations page") ELSE r.value

\* the try block of update_research_findings, lines 283-319
research_try(correlations_file, global_correlations) ==
  LET c == read_csv(correlations_file) IN
  IF c.raised THEN c ELSE
  LET v == coerce_value_column(c.value) IN
  IF v.raised THEN v ELSE
  LET correlations_df == v.value
      valid_data == NotNaRows(correlations_df.rows)
      health_metrics == px("bar", correlations_df, valid_data, "parameter", "value")
  IN
  IF health_metrics.raised THEN health_metrics ELSE
  LET trends_data ==
        BoolIndex(correlations_df.rows,
                  [i \in 1..Len(correlations_df.rows) |->
                     correlations_df.rows[i].parameter
                       \in {"PM2.5 Levels", "Health Implications"}])
      trends_viz == px("scatter", correlations_df, NotNaRows(trends_data),
                       "parameter", "value")
  IN
  IF trends_viz.raised THEN trends_viz ELSE
  Ok([health_metrics |-> health_metrics.value,
      trends_viz |-> trends_viz.value,
      key_findings |-> create_health_correlations_page(global_correlations),
      correlations_df |-> correlations_df,
      valid_data |-> valid_data])

ErrorOutputs ==
  [health_metrics |-> EmptyFigure("bar"),
   trends_viz |-> EmptyFigure("bar"),
   key_findings |-> Div("Error loading research findings"),
   correlations_df |-> <<>>,
   valid_data |-> <<>>]

\* an except clause that raises the exception again
research_reraise(e) == e

\* the except clause, lines 321-324
research_except(e) == Ok(ErrorOutputs)

\* lines 280-324
update_research_findings(correlations_file, global_correlations) ==
  LET r == research_try(correlations_file, global_correlations) IN
  IF r.raised THEN research_except(r) ELSE r

\* ------------------------------------------------------------- the files read
Quoted(s) == <<Q>> \o s \o <<Q>>

LocationA == SampleLocations[1]

LocationB == SampleLocations[2]

LocationC == SampleLocations[3]

RawRow(sensor, loc, vtype, aqi, ts) ==
  [sensor_id |-> sensor, sensor_type |-> Quoted(<<"P", "M">>), location |-> loc,
   value_type |-> vtype, air_quality_index |-> aqi, timestamp |-> ts]

\* rows of sensor_reading.csv: quoted and bare cells, a value that is no
\* number, a value_type outside the allow-list (with and without a number), a
\* timestamp that is no date, an empty location
FirstRawRow ==
  RawRow(Quoted(<<"S", "1">>), Quoted(LocationA), Quoted(<<"P", "1">>),
         Quoted(<<"1", "0">>), <<"4", "0", "T", "0">>)

RawRowPool ==
  { FirstRawRow,
    RawRow(Quoted(<<"S", "1">>), Quoted(LocationA), <<"P", "2">>,
           Quoted(<<"3", "0">>), <<"4", "0", "T", "0">>),
    RawRow(Quoted(<<"S", "1">>), Quoted(LocationA), Quoted(<<"P", "1">>),
           <<"x">>, <<"4", "0", "T", "0">>),
    RawRow(<<"S", "2">>, LocationB, <<"P", "0">>,
           <<"1", "'", "0">>, <<"4", "1", "T", "1">>),
    RawRow(Quoted(<<"S", "1">>), Quoted(LocationA), <<"h", "u", "m">>,
           Quoted(<<"5", "0">>), <<"4", "0", "T", "0">>),
    RawRow(<<"S", "1">>, LocationB, <<"P", "1">>,
           <<"2", "0">>, <<"x">>),
    RawRow(<<"S", "2">>, NaNCell, <<"P", "1">>,
           Quoted(<<"7">>), <<"4", "1", "T", "0">>),
    RawRow(<<"S", "1">>, LocationA, <<"P", "0">>,
           <<"4", "0">>, <<"4", "1", "T", "0">>),
    RawRow(<<"S", "2">>, LocationB, <<"h", "u", "m">>,
           <<"x">>, <<"4", "1", "T", "1">>) }

SensorColumns ==
  <<"sensor_id", "sensor_type", "location", "value_type", "air_quality_index",
    "timestamp">>

File(columns, rows) == [exists |-> TRUE, columns |-> columns, rows |-> rows]

MissingFile == [exists |-> FALSE, columns |-> <<>>, rows |-> <<>>]

WithoutColumn(columns, col) ==
  BoolIndex(columns, [i \in 1..Len(columns) |-> columns[i] # col])

\* sensor_reading.csv as the process may find it: absent, complete with up to
\* n rows, or lacking one column
SensorFiles(n) ==
  {MissingFile}
  \cup {File(SensorColumns, rows) : rows \in SeqsUpTo(RawRowPool, n)}
  \cup {File(WithoutColumn(SensorColumns, col), <<FirstRawRow>>) :
          col \in Range(SensorColumns)}

CorrelationRow(parameter, detail, value) ==
  [parameter |-> parameter, detail |-> detail, value |-> value]

\* rows of health_correlations.csv: numbers, a word, an empty cell
FirstCorrelationRow == CorrelationRow("PM2.5 Levels", "Annual mean", <<"3", "5">>)

CorrelationRowPool ==
  { FirstCorrelationRow,
    CorrelationRow("Health Implications", "Asthma", <<"2">>),
    CorrelationRow("Health Implications", "Wheeze", <<"x">>),
    CorrelationRow("Vulnerable Groups", "Children", NaNCell) }

CorrelationColumns == <<"parameter", "detail", "value">>

CorrelationFiles(n) ==
  {MissingFile}
  \cup {File(CorrelationColumns, rows) : rows \in SeqsUpTo(CorrelationRowPool, n)}
  \cup {File(WithoutColumn(CorrelationColumns, col), <<FirstCorrelationRow>>) :
          col \in Range(CorrelationColumns)}

FindingRow(category, detail) == [category |-> category, detail |-> detail]

FindingsFiles ==
  { MissingFile,
    File(<<"detail">>, <<FindingRow(<<"C", "o", "s", "t">>, <<"a">>)>>),
    File(<<"category", "detail">>,
         << FindingRow(<<"C", "o", "s", "t">>, <<"a">>),
            FindingRow(<<"A", "c", "t", "i", "o", "n">>, NaNCell),
            FindingRow(<<"C", "o", "s", "t">>, <<"x">>) >>) }

\* datetime.now() when the fallback runs, and the seed of numpy's generator
Nows == {41 * TicksPerDay + 1}

Seeds == 1..NumSeeds

\* the values the dashboard's controls can hand to update_figures
LocationSelections ==
  { None, Some(<<>>), Some(<<LocationA>>), Some(<<LocationB, LocationA>>),
    Some(<<LocationC>>) }

\* the dashboard as first shown: the first location, no date chosen
InitialSelection == {Some(<<LocationA>>)}

InitialDates == {<<NoDate, NoDate>>}

\* health_correlations.csv absent or with one good row
PlainCorrelationFiles == {MissingFile, File(CorrelationColumns, <<FirstCorrelationRow>>)}

\* sensor_reading.csv with one good row
PlainSensorFiles == {File(SensorColumns, <<FirstRawRow>>)}

\* sensor_reading.csv as the __main__ block finds it: absent or with one good row
ReloadSensorFiles == {MissingFile} \cup PlainSensorFiles

DateSelections ==
  { <<NoDate, NoDate>>,
    <<Some(40 * TicksPerDay), NoDate>>,
    <<Some(40 * TicksPerDay), Some(41 * TicksPerDay)>>,
    <<Some(50 * TicksPerDay), Some(51 * TicksPerDay)>> }

\* ------------------------------------------------------------- the program
VARIABLES pc, sensor_data, findings_df, correlations_df, findings_by_category, call

vars == <<pc, sensor_data, findings_df, correlations_df, findings_by_category, call>>

Unassigned == [defined |-> FALSE, df |-> <<>>]

Assigned(df) == [defined |-> TRUE, df |-> df]

NoCall == [fn |-> "none"]

Init ==
  /\ pc = "start"
  /\ sensor_data = Unassigned
  /\ findings_df = Unassigned
  /\ correlations_df = Unassigned
  /\ findings_by_category = Unassigned
  /\ call = NoCall

\* a call of load_and_process_sensor_data: its file, whether the except
\* clause ran, and how it ended
LoadCall(file, body, r) ==
  [fn |-> "load_and_process_sensor_data", file |-> file, fallback |-> body.raised,
   raised |-> r.raised, ret |-> r.value]

\* line 100: sensor_data = load_and_process_sensor_data('sensor_reading.csv')
ModuleLoad(files) ==
  /\ pc = "start"
  /\ \E file \in files :
       LET body == load_try(file) IN
       \E now \in Nows, seed \in Seeds :
       LET r == load_finish(body, now, seed) IN
       /\ call' = LoadCall(file, body, r)
       /\ IF r.raised
          THEN pc' = "crashed" /\ UNCHANGED sensor_data
          ELSE pc' = "loaded" /\ sensor_data' = Assigned(r.value)
  /\ UNCHANGED <<findings_df, correlations_df, findings_by_category>>

\* lines 103-192: the layout reads sensor_data['location'].unique()[0], which
\* raises IndexError on a dataset without rows
Layout ==
  /\ pc = "loaded"
  /\ pc' = IF sensor_data.df.rows = <<>> THEN "crashed" ELSE "laid_out"
  /\ call' = NoCall
  /\ UNCHANGED <<sensor_data, findings_df, correlations_df, findings_by_category>>

\* line 410, __name__ is not '__main__': the module was imported by a server,
\* which serves the callbacks
ServeImported ==
  /\ pc = "laid_out"
  /\ pc' = "serving"
  /\ call' = NoCall
  /\ UNCHANGED <<sensor_data, findings_df, correlations_df, findings_by_category>>

\* line 413: the __main__ block loads sensor_data again
MainLoad(files) ==
  /\ pc = "laid_out"
  /\ \E file \in files :
       LET body == load_try(file) IN
       \E now \in Nows, seed \in Seeds :
       LET r == load_finish(body, now, seed) IN
       /\ call' = LoadCall(file, body, r)
       /\ IF r.raised
          THEN pc' = "crashed" /\ UNCHANGED sensor_data
          ELSE pc' = "main_loaded" /\ sensor_data' = Assigned(r.value)
  /\ UNCHANGED <<findings_df, correlations_df, findings_by_category>>

\* lines 415-420: load_research_findings, then the server starts; an exception
\* ends the process
MainResearch(files) ==
  /\ pc = "main_loaded"
  /\ \E ffile \in FindingsFiles, cfile \in files :
       LET r == load_research_findings(ffile, cfile) IN
       /\ call' = [fn |-> "load_research_findings", findings_file |-> ffile,
                   correlations_file |-> cfile, raised |-> r.raised, exc |-> r.exc]
       /\ IF r.raised
          THEN /\ pc' = "crashed"
               /\ UNCHANGED <<findings_df, correlations_df, findings_by_category>>
          ELSE /\ pc' = "serving"
               /\ findings_df' = Assigned(r.value.findings_df)
               /\ correlations_df' = Assigned(r.value.correlations_df)
               /\ findings_by_category' = Assigned(r.value.findings_by_category)
  /\ UNCHANGED sensor_data

\* the callback of lines 220-272, run by the server on a change of a control
UpdateFigures(selections, ranges) ==
  /\ pc = "serving"
  /\ \E selected_locations \in selections, dates \in ranges :
       LET r == update_figures(sensor_data.df, selected_locations, dates[1], dates[2]) IN
       /\ sensor_data' = Assigned(r.sensor_data)
       /\ call' = [fn |-> "update_figures",
                   selected_locations |-> selected_locations,
                   start_date |-> dates[1], end_date |-> dates[2],
                   filtered_df |-> r.filtered_df, daily_avg |-> r.daily_avg,
                   raised |-> r.raised, exc |-> r.exc,
                   air_quality_fig |-> r.air_quality_fig,
                   trends_fig |-> r.trends_fig, stats |-> r.stats]
  /\ UNCHANGED <<pc, findings_df, correlations_df, findings_by_category>>

\* the callback of lines 274-324, run by the server on a change of tab
UpdateResearchFindings(files) ==
  /\ pc = "serving"
  /\ \E file \in files :
       LET r == update_research_findings(file, correlations_df) IN
       call' = [fn |-> "update_research_findings", file |-> file,
                raised |-> r.raised, ret |-> r.value]
  /\ UNCHANGED <<pc, sensor_data, findings_df, correlations_df, findings_by_category>>

\* the sensor pipeline over every sensor file and every choice of the controls,
\* beside a plain correlations file
Next ==
  \/ ModuleLoad(SensorFiles(MaxRows))
  \/ Layout
  \/ ServeImported
  \/ MainLoad(ReloadSensorFiles)
  \/ MainResearch(PlainCorrelationFiles)
  \/ UpdateFigures(LocationSelections, DateSelections)
  \/ UpdateResearchFindings(PlainCorrelationFiles)

Spec == Init /\ [][Next]_vars

\* the research pipeline over every correlations file, beside a plain sensor
\* file and the controls as first shown
NextResearch ==
  \/ ModuleLoad(PlainSensorFiles)
  \/ Layout
  \/ ServeImported
  \/ MainLoad(PlainSensorFiles)
  \/ MainResearch(CorrelationFiles(MaxStartupRows))
  \/ UpdateFigures(InitialSelection, InitialDates)
  \/ UpdateResearchFindings(CorrelationFiles(MaxCorrRows))

SpecResearch == Init /\ [][NextResearch]_vars

\* ------------------------------------------------------------- properties
IsLoadCall == call.fn = "load_and_process_sensor_data"

IsFiguresCall == call.fn = "update_figures"

IsResearchCall == call.fn = "update_research_findings"

\* what a cell of the file means: the text without its quotes, the number it
\* spells (if any), the instant it spells
CellText(s) == str_strip(s)

CellIsNumber(s) == ~IsNaNCell(s) /\ AllDigits(CellText(s))

CellNumber(s) == IF CellIsNumber(s) THEN IntNum(DigitsValue(CellText(s))) ELSE NaN

RowKey(r) ==
  [timestamp |-> IF IsNaNCell(r.timestamp) THEN NaT ELSE ParseTimestamp(r.timestamp),
   location |-> CellText(r.location),
   sensor_id |-> CellText(r.sensor_id)]

\* the rows of the file that are measurements: value_type is P0, P1 or P2
Measurements(file) ==
  {i \in 1..Len(file.rows) : CellText(file.rows[i].value_type) \in AllowedValueTypes}

RECURSIVE SumOver(_, _)
\* the sum of the air_quality_index numbers of the rows S of a file
SumOver(file, S) ==
  IF S = {} THEN 0
  ELSE LET i == CHOOSE j \in S : TRUE
       IN CellNumber(file.rows[i].air_quality_index).n + SumOver(file, S \ {i})

\* the mean of the numbers among the air_quality_index cells of the rows S
MeanOver(file, S) ==
  LET numbers == {i \in S : CellIsNumber(file.rows[i].air_quality_index)} IN
  IF numbers = {} THEN NaN ELSE Rat(SumOver(file, numbers), Cardinality(numbers))

OutKey(row) ==
  [timestamp |-> row.timestamp, location |-> row.location, sensor_id |-> row.sensor_id]

LoadFailure(file) ==
  \/ ~file.exists
  \/ \E col \in Range(SensorColumns) : ~HasColumn(file, col)
  \/ \E i \in 1..Len(file.rows) :
       ~IsNaNCell(file.rows[i].timestamp) /\ ~TimestampParses(file.rows[i].timestamp)
  \/ /\ file.rows # <<>>
     /\ \A i \in 1..Len(file.rows) :
          LET c == file.rows[i].air_quality_index IN IsNaNCell(c) \/ AllDigits(c)

IsSampleData(df) == \E now \in Nows, seed \in Seeds : df = create_sample_data(now, seed)

\* C2: the loader never raises; when loading or processing fails (no file, a
\* missing column, a timestamp that is no date in any row, a type error) it
\* returns exactly what create_sample_data returns, with no row of the file.
C2_Fallback ==
  IsLoadCall =>
    /\ ~call.raised
    /\ LoadFailure(call.file) => IsSampleData(call.ret)

\* a file whose first row is good and whose second has a timestamp that is no
\* date was answered with the sample data
C2_Witness ==
  /\ IsLoadCall /\ ~call.raised
  /\ Len(call.file.rows) = 2
  /\ TimestampParses(call.file.rows[1].timestamp)
  /\ CellIsNumber(call.file.rows[1].air_quality_index)
  /\ 1 \in Measurements(call.file)
  /\ ~TimestampParses(call.file.rows[2].timestamp)
  /\ IsSampleData(call.ret)

\* C3: every run of create_sample_data gives exactly 90 rows, over exactly 3
\* locations and exactly 30 dates, one row for each (location, day).
C3_SampleShape ==
  (IsLoadCall /\ call.fallback /\ ~call.raised) =>
    LET rows == call.ret.rows
        locs == {rows[i].location : i \in 1..Len(rows)}
        days == {DateOf(rows[i].timestamp) : i \in 1..Len(rows)}
    IN /\ Len(rows) = 90
       /\ Cardinality(locs) = 3
       /\ Cardinality(days) = 30
       /\ \A l \in locs, d \in days :
            Cardinality({i \in 1..Len(rows) :
                           rows[i].location = l /\ DateOf(rows[i].timestamp) = d}) = 1

\* the fallback ran because the file is missing
C3_Witness ==
  /\ IsLoadCall /\ call.fallback /\ ~call.file.exists
  /\ Len(call.ret.rows) = 90

\* the rows of the base dataset that the chosen locations and dates keep
Kept(base, selected_locations, start_date, end_date) ==
  LET anyLocation == selected_locations.none \/ selected_locations.val = <<>>
      anyDate == start_date.none \/ end_date.none
  IN {i \in 1..Len(base) :
        /\ anyLocation \/ \E k \in 1..Len(selected_locations.val) :
                            selected_locations.val[k] = base[i].location
        /\ anyDate \/ (start_date.val <= base[i].timestamp
                        /\ base[i].timestamp <= end_date.val)}

\* C4: the filtered set of update_figures is exactly the rows of the base
\* dataset whose location is selected and whose timestamp is in [start, end],
\* both ends included; no location is excluded when the selection is empty or
\* absent, no date when either end is absent.
C4_Filter ==
  IsFiguresCall =>
    LET base == sensor_data.df.rows
        kept == Kept(base, call.selected_locations, call.start_date, call.end_date)
        filtered == call.filtered_df.rows
    IN /\ Len(filtered) = Cardinality(kept)
       /\ Range(filtered) = {base[i] : i \in kept}
       /\ (call.selected_locations.none \/ call.selected_locations.val = <<>>) =>
            Len(filtered) =
              Cardinality(Kept(base, None, call.start_date, call.end_date))

\* a selection and a date range that keep some rows, not all, one of them at
\* the very end of the range
C4_Witness ==
  /\ IsFiguresCall
  /\ Truthy(call.selected_locations)
  /\ ~call.start_date.none /\ ~call.end_date.none
  /\ Len(call.filtered_df.rows) > 0
  /\ Len(call.filtered_df.rows) < Len(sensor_data.df.rows)
  /\ \E i \in 1..Len(call.filtered_df.rows) :
       call.filtered_df.rows[i].timestamp = call.end_date.val

\* C5: update_figures returns, without raising, for every selection of
\* locations (an empty list and None included) and every date range.
C5_NeverRaises == IsFiguresCall => ~call.raised

\* the filtered rows of one location
RowsAt(rows, loc) == {i \in 1..Len(rows) : rows[i].location = loc}

ValuesAt(rows, loc) ==
  LET at == SortInts(RowsAt(rows, loc))
  IN [k \in 1..Len(at) |-> rows[at[k]].air_quality_index]

\* C6: the statistics update_figures returns have one entry for each selected
\* location, in order, computed over the filtered rows of that location
\* alone: count is their number, mean, max and min are theirs; a location
\* without filtered rows has count 0 and NaN for mean, max and min.
C6_Statistics ==
  (IsFiguresCall /\ ~call.raised) =>
    LET sel == call.selected_locations.val
        rows == call.filtered_df.rows
    IN /\ Len(call.stats) = Len(sel)
       /\ \A k \in 1..Len(sel) :
            LET st == call.stats[k]
                vals == ValuesAt(rows, sel[k])
            IN /\ st.location = sel[k]
               /\ st.count = Cardinality(RowsAt(rows, sel[k]))
               /\ st.mean = Format2f(mean(vals))
               /\ st.max = Format2f(NumMax(vals))
               /\ st.min = Format2f(NumMin(vals))
               /\ st.count = 0 => (st.mean.nan /\ st.max.nan /\ st.min.nan)

\* two locations selected, a date range that leaves rows of one only
C6_Witness ==
  /\ IsFiguresCall /\ ~call.raised
  /\ Len(call.stats) = 2
  /\ ~call.start_date.none /\ ~call.end_date.none
  /\ call.stats[1].count = 0 /\ call.stats[1].mean.nan
  /\ call.stats[2].count > 0 /\ ~call.stats[2].mean.nan
  /\ Len(call.filtered_df.rows) < Len(sensor_data.df.rows)

\* C7: update_figures leaves the base dataset as it was: the same rows, values
\* and columns, whatever the filters (none at all included).
C7_BaseUnchanged == [][call'.fn = "update_figures" => sensor_data' = sensor_data]_vars

\* a call without any filter added the date column to its copy only
C7_Witness ==
  /\ IsFiguresCall
  /\ ~Truthy(call.selected_locations)
  /\ call.start_date.none
  /\ HasColumn(call.filtered_df, "date")
  /\ Len(call.filtered_df.rows) = Len(sensor_data.df.rows)
  /\ Len(sensor_data.df.rows) > 0
  /\ ~HasColumn(sensor_data.df, "date")

\* a row of the file whose air_quality_index spells no number
Malformed(file) ==
  {i \in 1..Len(file.rows) : ~CellIsNumber(file.rows[i].air_quality_index)}

\* the file gives the loader nothing else to fail on
Readable(file) ==
  /\ file.exists
  /\ \A col \in Range(SensorColumns) : HasColumn(file, col)
  /\ \A i \in 1..Len(file.rows) :
       IsNaNCell(file.rows[i].timestamp) \/ TimestampParses(file.rows[i].timestamp)

\* C8 as stated: a row whose air_quality_index is no number does not make the
\* loader fail and is not dropped before the aggregation; its key is in the
\* result, with the mean of the numbers of its group (missing if none).
C8_AsStated ==
  IsLoadCall =>
    LET file == call.file
        out == call.ret.rows
    IN /\ (Readable(file) /\ \E i \in Malformed(file) :
                               ~IsNaNCell(file.rows[i].air_quality_index))
            => ~call.fallback
       /\ ~call.fallback =>
            \A i \in Malformed(file) :
              \E j \in 1..Len(out) : OutKey(out[j]) = RowKey(file.rows[i])

\* the rows that reach the aggregation with a whole key: measurements with a
\* timestamp, a location and a sensor_id
Aggregated(file) ==
  {i \in Measurements(file) :
     /\ ~IsNaNCell(file.rows[i].timestamp)
     /\ ~IsNaNCell(file.rows[i].location)
     /\ ~IsNaNCell(file.rows[i].sensor_id)}

\* C8, amended: a row whose air_quality_index is no number does not make the
\* loader fail; if it is a measurement (value_type P0, P1 or P2) with a
\* timestamp, a location and a sensor_id, its key is in the result, with the
\* mean of the numbers among the measurements of that key (missing if none).
C8_Malformed ==
  IsLoadCall =>
    LET file == call.file
        out == call.ret.rows
    IN /\ (Readable(file) /\ \E i \in Malformed(file) :
                               ~IsNaNCell(file.rows[i].air_quality_index))
            => ~call.fallback
       /\ ~call.fallback =>
            \A i \in Malformed(file) \cap Aggregated(file) :
              \E j \in 1..Len(out) :
                /\ OutKey(out[j]) = RowKey(file.rows[i])
                /\ out[j].air_quality_index =
                     MeanOver(file, {m \in Measurements(file) :
                                       RowKey(file.rows[m]) = RowKey(file.rows[i])})

\* the number 10 and a word under one key gave one row, with the value 10
C8_Witness ==
  /\ IsLoadCall /\ ~call.fallback
  /\ Len(call.file.rows) = 2
  /\ Cardinality(Aggregated(call.file)) = 2
  /\ Cardinality(Malformed(call.file) \cap Aggregated(call.file)) = 1
  /\ Len(call.ret.rows) = 1
  /\ call.ret.rows[1].air_quality_index = IntNum(10)

\* what makes the try block of update_research_findings fail: no file, or no
\* value or parameter column
ResearchFailure(file) ==
  ~file.exists \/ ~HasColumn(file, "value") \/ ~HasColumn(file, "parameter")

\* what makes create_health_correlations_page fail: correlations_df was never
\* assigned, or lacks a column the page draws
PageFailure(global_correlations) ==
  \/ ~global_correlations.defined
  \/ \E col \in Range(CorrelationColumns) : ~HasColumn(global_correlations.df, col)

\* C9: update_research_findings never raises: a failure in loading or
\* processing the correlations gives the empty figures and the error text, a
\* failure in building the findings page gives the page's error text; and it
\* replaces neither the correlations data nor the sensor dataset.
C9_ResearchErrors ==
  /\ [](IsResearchCall =>
          /\ ~call.raised
          /\ ResearchFailure(call.file) =>
               /\ call.ret.health_metrics = EmptyFigure("bar")
               /\ call.ret.trends_viz = EmptyFigure("bar")
               /\ call.ret.key_findings = Div("Error loading research findings")
          /\ (~ResearchFailure(call.file) /\ PageFailure(correlations_df)) =>
               call.ret.key_findings = Div("Error loading health correlations page"))
  /\ [][call'.fn = "update_research_findings" =>
          /\ sensor_data' = sensor_data
          /\ correlations_df' = correlations_df]_vars

\* the correlations file lost its parameter column after the start: the
\* callback answered with the placeholders, the loaded data are as they were
C9_Witness ==
  /\ IsResearchCall /\ ~call.raised
  /\ call.file.exists /\ ~HasColumn(call.file, "parameter")
  /\ call.ret.key_findings = Div("Error loading research findings")
  /\ correlations_df.defined /\ Len(correlations_df.df.rows) > 0
  /\ sensor_data.defined /\ Len(sensor_data.df.rows) = 1

\* the rows of a correlations file whose value spells a number
NumericValues(file) == {i \in 1..Len(file.rows) : AllDigits(file.rows[i].value)}

\* C10: a row of the correlations file whose value is no number stays in the
\* correlations dataset, its value missing, and is left out of the health
\* metrics chart: the chart draws exactly the rows with a value, the dataset
\* has as many rows as the file.
C10_NonNumericValue ==
  /\ (IsResearchCall /\ ~call.raised /\ ~ResearchFailure(call.file)) =>
       LET file == call.file
           data == call.ret.correlations_df.rows
           chart == call.ret.health_metrics.data
       IN /\ Len(data) = Len(file.rows)
          /\ \A i \in 1..Len(data) :
               /\ data[i].parameter = file.rows[i].parameter
               /\ data[i].detail = file.rows[i].detail
               /\ data[i].value.nan <=> i \notin NumericValues(file)
          /\ Len(chart) = Cardinality(NumericValues(file))
          /\ \A k \in 1..Len(chart) :
               \E i \in NumericValues(file) : chart[k] = data[i]
          /\ \A i \in NumericValues(file) :
               \E k \in 1..Len(chart) : chart[k] = data[i]
  /\ (call.fn = "load_research_findings" /\ ~call.raised) =>
       /\ Len(correlations_df.df.rows) = Len(call.correlations_file.rows)
       /\ \A i \in 1..Len(correlations_df.df.rows) :
            correlations_df.df.rows[i].value.nan
              <=> i \notin NumericValues(call.correlations_file)

\* a file with a number and a word: both rows in the dataset, one in the chart
C10_Witness ==
  /\ IsResearchCall /\ ~call.raised /\ ~ResearchFailure(call.file)
  /\ Len(call.file.rows) = 2
  /\ Cardinality(NumericValues(call.file)) = 1
  /\ \E i \in 1..2 : call.file.rows[i].value = <<"x">>
  /\ Len(call.ret.correlations_df.rows) = 2
  /\ Len(call.ret.health_metrics.data) = 1

====
